---- MODULE Spec2Model ----
(***************************************************************************)
(* bundle-docs: the navigation walker, the content normalizer, the path    *)
(* normalizer and the symbol matcher of src/main.go, and the tiered search *)
(* of src/docsearch.go.                                                    *)
(*                                                                         *)
(* Go strings are modelled as sequences of one-character strings, so that  *)
(* prefix/suffix tests, replacements and regular-expression rewrites are   *)
(* computed character by character as the library routines compute them.   *)
(* Paths are kept relative to the cloned repository root (tmpDir).         *)
(***************************************************************************)
EXTENDS Integers, Sequences, FiniteSets, TLC

VARIABLES
    pc,          \* position of main(): which pass is running
    rootCfg,     \* the top-level mkdocs.yml as parseMkdocs would return it
    subCfgs,     \* included mkdocs.yml files: relative path -> configuration
    disk,        \* readable markdown files: relative path -> raw text
    refs,        \* outcome of parseSymbolURLs: [err, entries]
    stack,       \* call stack of walkNav / walkNavNode
    heap,        \* backing arrays of the breadcrumb slices
    docs,        \* the []docEntry accumulator of the walker
    docsTable,   \* rows of the docs table, in rowid order
    fileIndex,   \* map: normalized file path -> nav path
    helpTable,   \* rows of the help_urls table
    k,           \* loop index of the pass that is running
    added,       \* counter of recovered disambiguation pages
    matched,     \* counter of matched help URLs
    fnIn,        \* argument of the function under test
    fnOut,       \* its result; for searchDocs, the rowids printed so far
    seen,        \* searchDocs: the rowids already printed
    count,       \* searchDocs: the number of results printed
    tier,        \* searchDocs: the query whose rows are being read (1..3)
    pos          \* searchDocs: the position of rows.Next() in that query

\* the variables of searchDocs
searchVars == <<seen, count, tier, pos>>

vars == <<pc, rootCfg, subCfgs, disk, refs, stack, heap, docs, docsTable,
          fileIndex, helpTable, k, added, matched, fnIn, fnOut, searchVars>>

(***************************************************************************)
(* strings                                                                 *)
(***************************************************************************)
Take(s, n) == SubSeq(s, 1, n)

Drop(s, n) == SubSeq(s, n + 1, Len(s))

HasPrefix(s, p) == Len(p) <= Len(s) /\ Take(s, Len(p)) = p

HasSuffix(s, p) == Len(p) <= Len(s) /\ Drop(s, Len(s) - Len(p)) = p

TrimPrefix(s, p) == IF HasPrefix(s, p) THEN Drop(s, Len(p)) ELSE s

TrimSuffix(s, p) == IF HasSuffix(s, p) THEN Take(s, Len(s) - Len(p)) ELSE s

\* strings.Index: offset (from 0) of the first occurrence of p in s, or -1
RECURSIVE IndexFrom(_, _, _)
IndexFrom(s, p, i) ==
    IF i + Len(p) > Len(s) THEN -1
    ELSE IF SubSeq(s, i + 1, i + Len(p)) = p THEN i
    ELSE IndexFrom(s, p, i + 1)

Index(s, p) == IndexFrom(s, p, 0)

\* strings.ReplaceAll: leftmost, non-overlapping occurrences of old
RECURSIVE ReplaceAll(_, _, _)
ReplaceAll(s, old, new) ==
    IF Len(s) < Len(old) \/ old = <<>> THEN s
    ELSE IF HasPrefix(s, old) THEN new \o ReplaceAll(Drop(s, Len(old)), old, new)
    ELSE <<Head(s)>> \o ReplaceAll(Tail(s), old, new)

\* strings.Split(s, sep) for a one-character separator
RECURSIVE Split(_, _)
Split(s, sep) ==
    LET i == Index(s, <<sep>>)
    IN  IF i < 0 THEN <<s>>
        ELSE <<Take(s, i)>> \o Split(Drop(s, i + 1), sep)

\* strings.SplitN(s, sep, 2)
SplitN2(s, sep) ==
    LET i == Index(s, <<sep>>)
    IN  IF i < 0 THEN <<s>> ELSE <<Take(s, i), Drop(s, i + 1)>>

\* strings.Join
RECURSIVE Join(_, _)
Join(parts, sep) ==
    IF parts = <<>> THEN <<>>
    ELSE IF Len(parts) = 1 THEN parts[1]
    ELSE parts[1] \o sep \o Join(Tail(parts), sep)

IsSpace(c) == c \in {" ", "\n", "\t", "\r", "\f"}

RECURSIVE TrimLeftSpace(_)
TrimLeftSpace(s) ==
    IF s # <<>> /\ IsSpace(Head(s)) THEN TrimLeftSpace(Tail(s)) ELSE s

RECURSIVE TrimRightSpace(_)
TrimRightSpace(s) ==
    IF s # <<>> /\ IsSpace(s[Len(s)]) THEN TrimRightSpace(Take(s, Len(s) - 1)) ELSE s

TrimSpace(s) == TrimRightSpace(TrimLeftSpace(s))

\* strings.TrimLeft(s, "\n")
RECURSIVE TrimLeftNewlines(_)
TrimLeftNewlines(s) ==
    IF s # <<>> /\ Head(s) = "\n" THEN TrimLeftNewlines(Tail(s)) ELSE s

\* strings.ToUpper on a one-byte string
ToUpper(c) ==
    LET lower == <<"a", "b", "c", "d", "e", "f", "g", "h", "i", "j", "k", "l", "m",
                   "n", "o", "p", "q", "r", "s", "t", "u", "v", "w", "x", "y", "z">>
        upper == <<"A", "B", "C", "D", "E", "F", "G", "H", "I", "J", "K", "L", "M",
                   "N", "O", "P", "Q", "R", "S", "T", "U", "V", "W", "X", "Y", "Z">>
    IN  IF \E i \in 1..Len(lower) : lower[i] = c
        THEN upper[CHOOSE i \in 1..Len(lower) : lower[i] = c]
        ELSE c

\* filepath.Join of clean relative paths
PathJoin(a, b) ==
    IF a = <<>> THEN b ELSE IF b = <<>> THEN a ELSE a \o <<"/">> \o b

\* filepath.Dir of a clean relative path
RECURSIVE LastSlash(_, _)
LastSlash(s, i) ==
    IF i = 0 THEN 0 ELSE IF s[i] = "/" THEN i ELSE LastSlash(s, i - 1)

PathDir(p) ==
    LET i == LastSlash(p, Len(p)) IN IF i = 0 THEN <<".">> ELSE Take(p, i - 1)

sDocs == <<"d", "o", "c", "s">>
sMd == <<".", "m", "d">>
sIndex == <<"i", "n", "d", "e", "x">>
sIndexMd == <<"i", "n", "d", "e", "x", ".", "m", "d">>
sInclude == <<"!", "i", "n", "c", "l", "u", "d", "e", " ">>
sSep == <<" ", "/", " ">>

(***************************************************************************)
(* Path Normalizer                                                         *)
(***************************************************************************)
normalizeFilePath(file) ==
    LET a == ReplaceAll(file, <<"/">> \o sDocs \o <<"/">>, <<"/">>)
        b == TrimPrefix(a, sDocs \o <<"/">>)
        c == TrimSuffix(b, sMd)
    IN  TrimSuffix(c, <<"/">> \o sIndex)

(***************************************************************************)
(* Symbol Matcher: pure parts                                              *)
(***************************************************************************)
RECURSIVE TitleWords(_)
TitleWords(words) ==
    IF words = <<>> THEN <<>>
    ELSE LET w == Head(words)
         IN  <<IF Len(w) > 0 THEN <<ToUpper(w[1])>> \o Tail(w) ELSE w>>
             \o TitleWords(Tail(words))

RECURSIVE TitleParts(_)
TitleParts(parts) ==
    IF parts = <<>> THEN <<>>
    ELSE <<Join(TitleWords(Split(Head(parts), "-")), <<" ">>)>>
         \o TitleParts(Tail(parts))

buildNavPath(url) == Join(TitleParts(Split(url, "/")), sSep)

MapPut(m, key, val) ==
    [x \in DOMAIN m \cup {key} |-> IF x = key THEN val ELSE m[x]]

NoMatch == [navPath |-> <<>>, ok |-> FALSE]

Hit(p) == [navPath |-> p, ok |-> TRUE]

\* the keys the suffix scan of matchHelpURL accepts
SuffixCandidates(url, index) ==
    {f \in DOMAIN index : HasSuffix(f, <<"/">> \o url) \/ f = url}

\* a matcher that runs the suffix scan before the "/index" lookup
matchHelpURLScanFirst(url, index) ==
    IF url \in DOMAIN index THEN {Hit(index[url])}
    ELSE IF SuffixCandidates(url, index) # {}
    THEN {Hit(index[f]) : f \in SuffixCandidates(url, index)}
    ELSE IF (url \o <<"/">> \o sIndex) \in DOMAIN index
    THEN {Hit(index[url \o <<"/">> \o sIndex])}
    ELSE {NoMatch}

\* the results matchHelpURL can return: the suffix scan ranges over a Go
\* map, whose iteration order is not fixed, so any candidate may come first
matchHelpURL(url, index) ==
    IF url \in DOMAIN index THEN {Hit(index[url])}
    ELSE IF (url \o <<"/">> \o sIndex) \in DOMAIN index
    THEN {Hit(index[url \o <<"/">> \o sIndex])}
    ELSE IF SuffixCandidates(url, index) # {}
    THEN {Hit(index[f]) : f \in SuffixCandidates(url, index)}
    ELSE {NoMatch}

(***************************************************************************)
(* Content Normalizer: the regular expressions of extractTitleAndClean     *)
(***************************************************************************)
HasAt(s, i, lit) == i >= 1 /\ i + Len(lit) - 1 <= Len(s) /\ SubSeq(s, i, i + Len(lit) - 1) = lit

\* first position >= i holding character c, or 0
RECURSIVE FindChar(_, _, _)
FindChar(s, c, i) ==
    IF i > Len(s) THEN 0 ELSE IF s[i] = c THEN i ELSE FindChar(s, c, i + 1)

\* first position >= i where lit starts, or 0
RECURSIVE FindLit(_, _, _)
FindLit(s, lit, i) ==
    IF i + Len(lit) - 1 > Len(s) THEN 0
    ELSE IF HasAt(s, i, lit) THEN i ELSE FindLit(s, lit, i + 1)

\* first position >= i that holds no white space, or Len(s) + 1
RECURSIVE SkipSpace(_, _)
SkipSpace(s, i) ==
    IF i <= Len(s) /\ IsSpace(s[i]) THEN SkipSpace(s, i + 1) ELSE i

NoRe == [end |-> 0, cap |-> <<>>]

\* <open[^>]*>(.*?)<close> or, without attributes, <open>(.*?)<close>,
\* matched at position i; "." excludes the newline unless dotall
MatchPair(s, i, open, attrs, close, dotall) ==
    IF ~HasAt(s, i, open) THEN NoRe
    ELSE LET g == IF attrs THEN FindChar(s, ">", i + Len(open)) ELSE i + Len(open) - 1
         IN  IF g = 0 THEN NoRe
             ELSE LET e == FindLit(s, close, g + 1)
                  IN  IF e = 0 THEN NoRe
                      ELSE IF ~dotall /\ FindChar(SubSeq(s, g + 1, e - 1), "\n", 1) # 0
                      THEN NoRe
                      ELSE [end |-> e + Len(close), cap |-> SubSeq(s, g + 1, e - 1)]

\* </?name[^>]*> matched at position i
MatchTag(s, i, name) ==
    LET n == IF HasAt(s, i, <<"<">> \o name) THEN i + 1 + Len(name)
             ELSE IF HasAt(s, i, <<"<", "/">> \o name) THEN i + 2 + Len(name)
             ELSE 0
        g == IF n = 0 THEN 0 ELSE FindChar(s, ">", n)
    IN  IF g = 0 THEN NoRe ELSE [end |-> g + 1, cap |-> <<>>]

\* <br\s*/?> matched at position i
MatchBr(s, i) ==
    IF ~HasAt(s, i, <<"<", "b", "r">>) THEN NoRe
    ELSE LET q == SkipSpace(s, i + 3)
             r == IF HasAt(s, q, <<"/">>) THEN q + 1 ELSE q
         IN  IF HasAt(s, r, <<">">>) THEN [end |-> r + 1, cap |-> <<>>] ELSE NoRe

\* <[^>]+> matched at position i
MatchAnyTag(s, i) ==
    IF ~HasAt(s, i, <<"<">>) THEN NoRe
    ELSE LET g == FindChar(s, ">", i + 1)
         IN  IF g >= i + 2 THEN [end |-> g + 1, cap |-> <<>>] ELSE NoRe

\* display:\s*none somewhere in t
RECURSIVE HasDisplayNone(_, _)
HasDisplayNone(t, i) ==
    LET d == FindLit(t, <<"d", "i", "s", "p", "l", "a", "y", ":">>, i)
    IN  IF d = 0 THEN FALSE
        ELSE IF HasAt(t, SkipSpace(t, d + 8), <<"n", "o", "n", "e">>) THEN TRUE
        ELSE HasDisplayNone(t, d + 1)

\* (?s)<div[^>]*display:\s*none[^>]*>(.*?)</div>\s* matched at position i
MatchHiddenDiv(s, i) ==
    IF ~HasAt(s, i, <<"<", "d", "i", "v">>) THEN NoRe
    ELSE LET g == FindChar(s, ">", i + 4)
         IN  IF g = 0 \/ ~HasDisplayNone(SubSeq(s, i + 4, g - 1), 1) THEN NoRe
             ELSE LET e == FindLit(s, <<"<", "/", "d", "i", "v", ">">>, g + 1)
                  IN  IF e = 0 THEN NoRe
                      ELSE [end |-> SkipSpace(s, e + 6), cap |-> SubSeq(s, g + 1, e - 1)]

\* the byte 0x60, which a TLA+ string literal cannot hold: one element of its own
Backtick == "BQ"

h1Re == [kind |-> "pair", open |-> <<"<", "h", "1">>, attrs |-> TRUE,
         close |-> <<"<", "/", "h", "1", ">">>, pre |-> <<"#", " ">>, post |-> <<>>]

h2Re == [kind |-> "pair", open |-> <<"<", "h", "2">>, attrs |-> TRUE,
         close |-> <<"<", "/", "h", "2", ">">>, pre |-> <<"#", "#", " ">>, post |-> <<>>]

h3Re == [kind |-> "pair", open |-> <<"<", "h", "3">>, attrs |-> TRUE,
         close |-> <<"<", "/", "h", "3", ">">>, pre |-> <<"#", "#", "#", " ">>, post |-> <<>>]

kbdRe == [kind |-> "pair", open |-> <<"<", "k", "b", "d", ">">>, attrs |-> FALSE,
          close |-> <<"<", "/", "k", "b", "d", ">">>, pre |-> <<Backtick>>, post |-> <<Backtick>>]

supRe == [kind |-> "pair", open |-> <<"<", "s", "u", "p", ">">>, attrs |-> FALSE,
          close |-> <<"<", "/", "s", "u", "p", ">">>, pre |-> <<>>, post |-> <<>>]

strongRe == [kind |-> "pair", open |-> <<"<", "s", "t", "r", "o", "n", "g", ">">>,
             attrs |-> FALSE,
             close |-> <<"<", "/", "s", "t", "r", "o", "n", "g", ">">>,
             pre |-> <<"*", "*">>, post |-> <<"*", "*">>]

spanRe == [kind |-> "tag", name |-> <<"s", "p", "a", "n">>, pre |-> <<>>, post |-> <<>>]

divRe == [kind |-> "tag", name |-> <<"d", "i", "v">>, pre |-> <<>>, post |-> <<>>]

brRe == [kind |-> "br", pre |-> <<"\n">>, post |-> <<>>]

htmlTagRe == [kind |-> "anytag", pre |-> <<>>, post |-> <<>>]

hiddenDivRe == [kind |-> "hidden", pre |-> <<>>, post |-> <<>>]

MatchAt(re, s, i) ==
    CASE re.kind = "pair" -> MatchPair(s, i, re.open, re.attrs, re.close, FALSE)
      [] re.kind = "tag" -> MatchTag(s, i, re.name)
      [] re.kind = "br" -> MatchBr(s, i)
      [] re.kind = "anytag" -> MatchAnyTag(s, i)
      [] re.kind = "hidden" -> MatchHiddenDiv(s, i)

\* the replacement text of one match: the pair patterns keep "$1" between
\* pre and post, the others replace the whole match by pre
Expand(re, m) == IF re.kind = "pair" THEN re.pre \o m.cap \o re.post ELSE re.pre

\* regexp.ReplaceAllString: leftmost non-overlapping matches, left to right
RECURSIVE ReplaceRe(_, _, _)
ReplaceRe(re, s, i) ==
    IF i > Len(s) THEN <<>>
    ELSE LET m == MatchAt(re, s, i)
         IN  IF m.end > 0 THEN Expand(re, m) \o ReplaceRe(re, s, m.end)
             ELSE <<s[i]>> \o ReplaceRe(re, s, i + 1)

ReplaceAllString(re, s) == ReplaceRe(re, s, 1)

\* regexp.FindAllStringSubmatch: the first groups of all matches, in order
RECURSIVE FindAllCaps(_, _, _)
FindAllCaps(re, s, i) ==
    IF i > Len(s) THEN <<>>
    ELSE LET m == MatchAt(re, s, i)
         IN  IF m.end > 0 THEN <<m.cap>> \o FindAllCaps(re, s, m.end)
             ELSE FindAllCaps(re, s, i + 1)

\* regexp.FindStringSubmatch: [found, cap] of the leftmost match
RECURSIVE FindFirstCap(_, _, _)
FindFirstCap(re, s, i) ==
    IF i > Len(s) THEN [found |-> FALSE, cap |-> <<>>]
    ELSE LET m == MatchAt(re, s, i)
         IN  IF m.end > 0 THEN [found |-> TRUE, cap |-> m.cap]
             ELSE FindFirstCap(re, s, i + 1)

\* (?m)^#\s+(.+)$ matched at the line start p
MatchMdH1(s, p) ==
    IF ~HasAt(s, p, <<"#">>) THEN [found |-> FALSE, cap |-> <<>>]
    ELSE LET q == SkipSpace(s, p + 1)
         IN  IF q = p + 1 THEN [found |-> FALSE, cap |-> <<>>]
             ELSE IF q <= Len(s)
             THEN LET nl == FindChar(s, "\n", q)
                      e == IF nl = 0 THEN Len(s) ELSE nl - 1
                  IN  [found |-> TRUE, cap |-> SubSeq(s, q, e)]
             \* white space up to the end of the text: \s+ gives back its tail
             \* to (.+) when that tail starts with a character other than newline
             ELSE IF \E j \in (p + 2)..Len(s) : s[j] # "\n"
             THEN LET j == CHOOSE x \in (p + 2)..Len(s) :
                               s[x] # "\n" /\ \A z \in (x + 1)..Len(s) : s[z] = "\n"
                  IN  [found |-> TRUE, cap |-> <<s[j]>>]
             ELSE [found |-> FALSE, cap |-> <<>>]

RECURSIVE FindMdH1(_, _)
FindMdH1(s, p) ==
    IF p > Len(s) THEN [found |-> FALSE, cap |-> <<>>]
    ELSE LET m == IF p = 1 \/ s[p - 1] = "\n" THEN MatchMdH1(s, p)
                  ELSE [found |-> FALSE, cap |-> <<>>]
         IN  IF m.found THEN m ELSE FindMdH1(s, p + 1)

(***************************************************************************)
(* Content Normalizer: extractTitleAndClean                                *)
(***************************************************************************)
\* strip the YAML front-matter
StripFrontMatter(s) ==
    IF HasPrefix(s, <<"-", "-", "-">>)
    THEN LET end == Index(Drop(s, 3), <<"\n", "-", "-", "-">>)
         IN  IF end >= 0 THEN TrimLeftNewlines(Drop(s, 3 + end + 4)) ELSE s
    ELSE s

\* title from the first markdown h1 (md), else from the first HTML h1 (h)
TitleFrom(md, h) ==
    IF md.found THEN TrimSpace(md.cap)
    ELSE IF h.found THEN ReplaceAllString(htmlTagRe, TrimSpace(h.cap))
    ELSE <<>>

ExtractTitle(s) == TitleFrom(FindMdH1(s, 1), FindFirstCap(h1Re, s, 1))

RECURSIVE NonEmptyTrimmed(_)
NonEmptyTrimmed(caps) ==
    IF caps = <<>> THEN <<>>
    ELSE (IF TrimSpace(Head(caps)) # <<>> THEN <<TrimSpace(Head(caps))>> ELSE <<>>)
         \o NonEmptyTrimmed(Tail(caps))

\* keywords from the hidden divs
ExtractKeywords(s) == Join(NonEmptyTrimmed(FindAllCaps(hiddenDivRe, s, 1)), <<" ">>)

\* the rewrites after the hidden divs are removed: h1..h3, span, br, kbd,
\* sup, strong, div, in this order
ConvertMarkup(s) ==
    LET a == ReplaceAllString(h1Re, s)
        b == ReplaceAllString(h2Re, a)
        c == ReplaceAllString(h3Re, b)
        d == ReplaceAllString(spanRe, c)
        e == ReplaceAllString(brRe, d)
        f == ReplaceAllString(kbdRe, e)
        g == ReplaceAllString(supRe, f)
        h == ReplaceAllString(strongRe, g)
    IN  ReplaceAllString(divRe, h)

\* title, keywords and cleaned content of a text without front-matter
TitleKeywordsContent(s) ==
    [title |-> ExtractTitle(s),
     keywords |-> ExtractKeywords(s),
     content |-> ConvertMarkup(ReplaceAllString(hiddenDivRe, s))]

extractTitleAndClean(raw) == TitleKeywordsContent(StripFrontMatter(raw))

(***************************************************************************)
(* Go slices of strings: a slice is a window [arr, len, cap] on a backing  *)
(* array of the heap; append writes in place while len < cap and moves to  *)
(* a fresh array of twice the capacity otherwise                           *)
(***************************************************************************)
NoCfg == [ok |-> FALSE, docsDir |-> <<>>, nav |-> <<>>]

NoRefs == [err |-> TRUE, entries |-> <<>>]

EmptyMap == [x \in {} |-> <<>>]

NilSlice == [arr |-> 0, len |-> 0, cap |-> 0]

SliceElems(h, s) == IF s.len = 0 THEN <<>> ELSE SubSeq(h[s.arr], 1, s.len)

GrowCap(oldCap) == IF oldCap = 0 THEN 1 ELSE 2 * oldCap

\* append(s, x): [heap, slice] after the call
GoAppend(h, s, x) ==
    IF s.len < s.cap
    THEN [heap |-> [h EXCEPT ![s.arr][s.len + 1] = x],
          slice |-> [s EXCEPT !.len = s.len + 1]]
    ELSE LET c == GrowCap(s.cap)
             a == [i \in 1..c |-> IF i <= s.len THEN h[s.arr][i]
                                  ELSE IF i = s.len + 1 THEN x ELSE <<>>]
         IN  [heap |-> Append(h, a),
              slice |-> [arr |-> Len(h) + 1, len |-> s.len + 1, cap |-> c]]

(***************************************************************************)
(* yaml.Node                                                               *)
(***************************************************************************)
ScalarNode(v) == [kind |-> "Scalar", value |-> v, content |-> <<>>]

\* content: key, value, key, value, ...
MappingNode(c) == [kind |-> "Mapping", value |-> <<>>, content |-> c]

SequenceNode(c) == [kind |-> "Sequence", value |-> <<>>, content |-> c]

(***************************************************************************)
(* Navigation Tree Walker                                                  *)
(***************************************************************************)
\* filepath.Clean of a relative path that may start with "./"
RECURSIVE PathClean(_)
PathClean(p) == IF HasPrefix(p, <<".", "/">>) THEN PathClean(Drop(p, 2)) ELSE p

DocsDirOf(cfg) == IF cfg.docsDir = <<>> THEN sDocs ELSE cfg.docsDir

\* parseMkdocs of an included configuration: [err, cfg]
parseMkdocs(path) ==
    IF path \in DOMAIN subCfgs /\ subCfgs[path].ok
    THEN [err |-> FALSE, cfg |-> subCfgs[path]]
    ELSE [err |-> TRUE, cfg |-> NoCfg]

\* the docEntry addDoc appends: r is the result of extractTitleAndClean
DocEntry(mdPath, absPath, bc, r) ==
    [path |-> IF Join(bc, sSep) = <<>> THEN mdPath ELSE Join(bc, sSep),
     file |-> absPath,
     title |-> IF r.title = <<>> /\ Len(bc) > 0 THEN bc[Len(bc)] ELSE r.title,
     keywords |-> r.keywords,
     content |-> r.content,
     exclude |-> FALSE]

\* an addDoc that drops the documents reached with an empty breadcrumb
addDocNoFallback(mdPath, docsDir, breadcrumb, h, out) ==
    IF ~HasSuffix(mdPath, sMd) THEN out
    ELSE IF PathJoin(docsDir, mdPath) \notin DOMAIN disk THEN out
    ELSE IF breadcrumb.len = 0 THEN out
    ELSE Append(out, DocEntry(mdPath, PathJoin(docsDir, mdPath), SliceElems(h, breadcrumb),
                              extractTitleAndClean(disk[PathJoin(docsDir, mdPath)])))

\* an addDoc that gives up the accumulated entries when a file is unreadable
addDocTruncating(mdPath, docsDir, breadcrumb, h, out) ==
    IF ~HasSuffix(mdPath, sMd) THEN out
    ELSE IF PathJoin(docsDir, mdPath) \notin DOMAIN disk THEN <<>>
    ELSE Append(out, DocEntry(mdPath, PathJoin(docsDir, mdPath), SliceElems(h, breadcrumb),
                              extractTitleAndClean(disk[PathJoin(docsDir, mdPath)])))

\* addDoc: the accumulator after the call
addDoc(mdPath, docsDir, breadcrumb, h, out) ==
    IF ~HasSuffix(mdPath, sMd) THEN out
    ELSE IF PathJoin(docsDir, mdPath) \notin DOMAIN disk THEN out
    ELSE Append(out, DocEntry(mdPath, PathJoin(docsDir, mdPath), SliceElems(h, breadcrumb),
                              extractTitleAndClean(disk[PathJoin(docsDir, mdPath)])))

\* a loop that rebinds breadcrumb to the extended slice
LoopBreadcrumbRebound(breadcrumb, path) == path

\* the breadcrumb the next pair of the mapping loop starts from: the loop
\* body binds the extended slice to its own variable (path := append(...))
\* and leaves breadcrumb as it was
LoopBreadcrumb(breadcrumb, path) == breadcrumb

Frame(fn, nodes, node, docsDir, breadcrumb) ==
    [fn |-> fn, nodes |-> nodes, node |-> node, i |-> 1, j |-> 0,
     docsDir |-> docsDir, breadcrumb |-> breadcrumb, path |-> NilSlice]

Top == stack[Len(stack)]

Push(st, f) == Append(st, f)

Pop(st) == SubSeq(st, 1, Len(st) - 1)

SetTop(st, f) == [st EXCEPT ![Len(st)] = f]

Walking == pc = "walk" /\ stack # <<>>

InNode(kind) == Walking /\ Top.fn = "walkNavNode" /\ Top.node.kind = kind

\* the pair the mapping loop of walkNavNode is at
PairKey == Top.node.content[2 * Top.i - 1]

PairVal == Top.node.content[2 * Top.i]

AtPair == InNode("Mapping") /\ Top.j = 0 /\ 2 * Top.i <= Len(Top.node.content)

\* number of walkNav calls on the stack that handleInclude made
InclDepth == Cardinality({n \in 1..Len(stack) : stack[n].fn = "includedNav"})

\* main: cfg, err := parseMkdocs(...); log.Fatalf on error; walkNav(cfg.Nav, ...)
ParseRoot ==
    /\ pc = "start"
    /\ IF rootCfg.ok
       THEN /\ pc' = "walk"
            /\ stack' = <<Frame("walkNav", rootCfg.nav, ScalarNode(<<>>),
                                DocsDirOf(rootCfg), NilSlice)>>
       ELSE /\ pc' = "fatal"
            /\ UNCHANGED stack
    /\ UNCHANGED <<rootCfg, subCfgs, disk, refs, heap, docs, docsTable, fileIndex,
                   helpTable, k, added, matched, fnIn, fnOut, searchVars>>

\* walkNav: one iteration of the loop over nodes
WalkNavLoop ==
    /\ Walking
    /\ Top.fn \in {"walkNav", "includedNav"}
    /\ Top.i <= Len(Top.nodes)
    /\ stack' = Push(SetTop(stack, [Top EXCEPT !.i = @ + 1]),
                     Frame("walkNavNode", <<>>, Top.nodes[Top.i], Top.docsDir, Top.breadcrumb))
    /\ UNCHANGED <<pc, rootCfg, subCfgs, disk, refs, heap, docs, docsTable, fileIndex,
                   helpTable, k, added, matched, fnIn, fnOut, searchVars>>

\* walkNav returns; the outermost call returns to main
WalkNavReturn ==
    /\ Walking
    /\ Top.fn \in {"walkNav", "includedNav"}
    /\ Top.i > Len(Top.nodes)
    /\ stack' = Pop(stack)
    /\ IF Len(stack) = 1 THEN pc' = "insert" /\ k' = 1 ELSE UNCHANGED <<pc, k>>
    /\ UNCHANGED <<rootCfg, subCfgs, disk, refs, heap, docs, docsTable, fileIndex,
                   helpTable, added, matched, fnIn, fnOut, searchVars>>

\* case yaml.ScalarNode: a bare file reference
ScalarLeaf ==
    /\ InNode("Scalar")
    /\ docs' = addDoc(Top.node.value, Top.docsDir, Top.breadcrumb, heap, docs)
    /\ stack' = Pop(stack)
    /\ UNCHANGED <<pc, rootCfg, subCfgs, disk, refs, heap, docsTable, fileIndex,
                   helpTable, k, added, matched, fnIn, fnOut, searchVars>>

\* "Title": "!include ..." with an unreadable or unparsable configuration
IncludeFails ==
    /\ AtPair
    /\ PairVal.kind = "Scalar"
    /\ HasPrefix(PairVal.value, sInclude)
    /\ parseMkdocs(PathClean(TrimSpace(TrimPrefix(PairVal.value, sInclude)))).err
    /\ stack' = SetTop(stack, [Top EXCEPT !.i = @ + 1])
    /\ UNCHANGED <<pc, rootCfg, subCfgs, disk, refs, heap, docs, docsTable, fileIndex,
                   helpTable, k, added, matched, fnIn, fnOut, searchVars>>

\* "Title": "!include ...": handleInclude walks the sub-site's nav
IncludeWalks ==
    /\ AtPair
    /\ PairVal.kind = "Scalar"
    /\ HasPrefix(PairVal.value, sInclude)
    /\ LET absPath == PathClean(TrimSpace(TrimPrefix(PairVal.value, sInclude)))
           p == parseMkdocs(absPath)
           a == GoAppend(heap, Top.breadcrumb, PairKey.value)
       IN  /\ ~p.err
           /\ InclDepth < Cardinality(DOMAIN subCfgs)
           /\ heap' = a.heap
           /\ stack' = Push(SetTop(stack, [Top EXCEPT !.i = @ + 1,
                                                 !.breadcrumb = LoopBreadcrumb(@, a.slice)]),
                            Frame("includedNav", p.cfg.nav, ScalarNode(<<>>),
                                  PathJoin(PathDir(absPath), DocsDirOf(p.cfg)), a.slice))
    /\ UNCHANGED <<pc, rootCfg, subCfgs, disk, refs, docs, docsTable, fileIndex,
                   helpTable, k, added, matched, fnIn, fnOut, searchVars>>

\* more nested inclusions than there are configurations: one of them
\* includes itself or an ancestor, the recursion never returns, and the Go
\* runtime ends the process when the goroutine stack passes its limit
IncludeOverflows ==
    /\ AtPair
    /\ PairVal.kind = "Scalar"
    /\ HasPrefix(PairVal.value, sInclude)
    /\ ~parseMkdocs(PathClean(TrimSpace(TrimPrefix(PairVal.value, sInclude)))).err
    /\ InclDepth >= Cardinality(DOMAIN subCfgs)
    /\ pc' = "overflow"
    /\ UNCHANGED <<rootCfg, subCfgs, disk, refs, stack, heap, docs, docsTable, fileIndex,
                   helpTable, k, added, matched, fnIn, fnOut, searchVars>>

\* "Title": "file.md"
MappingLeaf ==
    /\ AtPair
    /\ PairVal.kind = "Scalar"
    /\ ~HasPrefix(PairVal.value, sInclude)
    /\ LET a == GoAppend(heap, Top.breadcrumb, PairKey.value)
       IN  /\ heap' = a.heap
           /\ docs' = addDoc(PairVal.value, Top.docsDir, a.slice, a.heap, docs)
           /\ stack' = SetTop(stack, [Top EXCEPT !.i = @ + 1,
                                          !.breadcrumb = LoopBreadcrumb(@, a.slice)])
    /\ UNCHANGED <<pc, rootCfg, subCfgs, disk, refs, docsTable, fileIndex,
                   helpTable, k, added, matched, fnIn, fnOut, searchVars>>

\* "Title": [...]: path := append(breadcrumb, title), then the loop over j
SectionEnter ==
    /\ AtPair
    /\ PairVal.kind = "Sequence"
    /\ LET a == GoAppend(heap, Top.breadcrumb, PairKey.value)
       IN  /\ heap' = a.heap
           /\ stack' = SetTop(stack, [Top EXCEPT !.path = a.slice, !.j = 1])
    /\ UNCHANGED <<pc, rootCfg, subCfgs, disk, refs, docs, docsTable, fileIndex,
                   helpTable, k, added, matched, fnIn, fnOut, searchVars>>

\* one child of the nested section
SectionChild ==
    /\ InNode("Mapping")
    /\ Top.j >= 1
    /\ Top.j <= Len(PairVal.content)
    /\ stack' = Push(SetTop(stack, [Top EXCEPT !.j = @ + 1]),
                     Frame("walkNavNode", <<>>, PairVal.content[Top.j], Top.docsDir, Top.path))
    /\ UNCHANGED <<pc, rootCfg, subCfgs, disk, refs, heap, docs, docsTable, fileIndex,
                   helpTable, k, added, matched, fnIn, fnOut, searchVars>>

\* the nested section is exhausted: on to the next pair
SectionExit ==
    /\ InNode("Mapping")
    /\ Top.j >= 1
    /\ Top.j > Len(PairVal.content)
    /\ stack' = SetTop(stack, [Top EXCEPT !.j = 0, !.i = @ + 1, !.path = NilSlice,
                                   !.breadcrumb = LoopBreadcrumb(@, Top.path)])
    /\ UNCHANGED <<pc, rootCfg, subCfgs, disk, refs, heap, docs, docsTable, fileIndex,
                   helpTable, k, added, matched, fnIn, fnOut, searchVars>>

\* "Title": {...}
MappingValue ==
    /\ AtPair
    /\ PairVal.kind = "Mapping"
    /\ LET a == GoAppend(heap, Top.breadcrumb, PairKey.value)
       IN  /\ heap' = a.heap
           /\ stack' = Push(SetTop(stack, [Top EXCEPT !.i = @ + 1,
                                                 !.breadcrumb = LoopBreadcrumb(@, a.slice)]),
                            Frame("walkNavNode", <<>>, PairVal, Top.docsDir, a.slice))
    /\ UNCHANGED <<pc, rootCfg, subCfgs, disk, refs, docs, docsTable, fileIndex,
                   helpTable, k, added, matched, fnIn, fnOut, searchVars>>

\* case yaml.SequenceNode: one iteration
SequenceLoop ==
    /\ InNode("Sequence")
    /\ Top.i <= Len(Top.node.content)
    /\ stack' = Push(SetTop(stack, [Top EXCEPT !.i = @ + 1]),
                     Frame("walkNavNode", <<>>, Top.node.content[Top.i],
                           Top.docsDir, Top.breadcrumb))
    /\ UNCHANGED <<pc, rootCfg, subCfgs, disk, refs, heap, docs, docsTable, fileIndex,
                   helpTable, k, added, matched, fnIn, fnOut, searchVars>>

\* walkNavNode returns at the end of its mapping or sequence loop
WalkNavNodeReturn ==
    /\ \/ InNode("Mapping") /\ Top.j = 0 /\ 2 * Top.i > Len(Top.node.content)
       \/ InNode("Sequence") /\ Top.i > Len(Top.node.content)
    /\ stack' = Pop(stack)
    /\ UNCHANGED <<pc, rootCfg, subCfgs, disk, refs, heap, docs, docsTable, fileIndex,
                   helpTable, k, added, matched, fnIn, fnOut, searchVars>>

(***************************************************************************)
(* main(): the docs table, the file index, the recovery and matching passes*)
(***************************************************************************)
HasPath(table, p) == \E n \in 1..Len(table) : table[n].path = p

\* an insert whose uniqueness key is the file instead of the path
InsertDocByFile(table, row) ==
    IF \E n \in 1..Len(table) : table[n].file = row.file THEN table ELSE Append(table, row)

\* an insert that lets the last entry of a path win
InsertDocOrReplace(table, row) ==
    IF HasPath(table, row.path)
    THEN [n \in 1..Len(table) |-> IF table[n].path = row.path THEN row ELSE table[n]]
    ELSE Append(table, row)

\* INSERT OR IGNORE INTO docs: path is the primary key
InsertDocOrIgnore(table, row) ==
    IF HasPath(table, row.path) THEN table ELSE Append(table, row)

HasSymbol(table, sym) == \E n \in 1..Len(table) : table[n].symbol = sym

\* INSERT OR REPLACE INTO help_urls
InsertHelpOrReplace(table, row) ==
    IF HasSymbol(table, row.symbol)
    THEN [n \in 1..Len(table) |-> IF table[n].symbol = row.symbol THEN row ELSE table[n]]
    ELSE Append(table, row)

\* INSERT OR IGNORE INTO help_urls: symbol is the primary key
InsertHelpOrIgnore(table, row) ==
    IF HasSymbol(table, row.symbol) THEN table ELSE Append(table, row)

NotFound == [ok |-> FALSE, navPath |-> <<>>, file |-> <<>>, title |-> <<>>,
             keywords |-> <<>>, content |-> <<>>]

LastOf(q) == q[Len(q)]

\* what findHelpFile returns for a readable candidate: r is the result
\* of extractTitleAndClean
Found(url, candidate, r) ==
    [ok |-> TRUE, navPath |-> buildNavPath(url), file |-> candidate,
     title |-> IF r.title = <<>> THEN LastOf(Split(url, "/")) ELSE r.title,
     keywords |-> r.keywords, content |-> r.content]

FoundAt(url, candidate) == Found(url, candidate, extractTitleAndClean(disk[candidate]))

\* the row the recovery pass inserts for a found file
RecoveredRow(f) ==
    [path |-> f.navPath, file |-> f.file, title |-> f.title,
     keywords |-> f.keywords, content |-> f.content, exclude |-> TRUE]

findHelpFile(url) ==
    LET parts == SplitN2(url, "/")
    IN  IF Len(parts) < 2 THEN NotFound
        ELSE LET c1 == PathJoin(PathJoin(parts[1], sDocs), parts[2] \o sMd)
                 c2 == PathJoin(PathJoin(PathJoin(parts[1], sDocs), parts[2]), sIndexMd)
             IN  IF c1 \in DOMAIN disk THEN FoundAt(url, c1)
                 ELSE IF c2 \in DOMAIN disk THEN FoundAt(url, c2)
                 ELSE NotFound

Matchable(url, index) == \E r \in matchHelpURL(url, index) : r.ok

\* the walker's documents go into the docs table, one row per iteration
InsertDoc ==
    /\ pc = "insert"
    /\ k <= Len(docs)
    /\ docsTable' = InsertDocOrIgnore(docsTable, docs[k])
    /\ k' = k + 1
    /\ UNCHANGED <<pc, rootCfg, subCfgs, disk, refs, stack, heap, docs, fileIndex,
                   helpTable, added, matched, fnIn, fnOut, searchVars>>

InsertDone ==
    /\ pc = "insert"
    /\ k > Len(docs)
    /\ pc' = "index"
    /\ k' = 1
    /\ UNCHANGED <<rootCfg, subCfgs, disk, refs, stack, heap, docs, docsTable, fileIndex,
                   helpTable, added, matched, fnIn, fnOut, searchVars>>

\* fileIndex[normalizeFilePath(d.file)] = d.path, one document per iteration
IndexDoc ==
    /\ pc = "index"
    /\ k <= Len(docs)
    /\ fileIndex' = MapPut(fileIndex, normalizeFilePath(docs[k].file), docs[k].path)
    /\ k' = k + 1
    /\ UNCHANGED <<pc, rootCfg, subCfgs, disk, refs, stack, heap, docs, docsTable,
                   helpTable, added, matched, fnIn, fnOut, searchVars>>

\* parseSymbolURLs: on error a warning, and main is done
ParseSymbolURLs ==
    /\ pc = "index"
    /\ k > Len(docs)
    /\ pc' = IF refs.err THEN "done" ELSE "recover"
    /\ k' = 1
    /\ UNCHANGED <<rootCfg, subCfgs, disk, refs, stack, heap, docs, docsTable, fileIndex,
                   helpTable, added, matched, fnIn, fnOut, searchVars>>

\* first pass: the URL already matches
RecoverSkip ==
    /\ pc = "recover"
    /\ k <= Len(refs.entries)
    /\ Matchable(refs.entries[k].url, fileIndex)
    /\ k' = k + 1
    /\ UNCHANGED <<pc, rootCfg, subCfgs, disk, refs, stack, heap, docs, docsTable, fileIndex,
                   helpTable, added, matched, fnIn, fnOut, searchVars>>

\* first pass: no match and no file in the repo
RecoverNoFile ==
    /\ pc = "recover"
    /\ k <= Len(refs.entries)
    /\ ~Matchable(refs.entries[k].url, fileIndex)
    /\ ~findHelpFile(refs.entries[k].url).ok
    /\ k' = k + 1
    /\ UNCHANGED <<pc, rootCfg, subCfgs, disk, refs, stack, heap, docs, docsTable, fileIndex,
                   helpTable, added, matched, fnIn, fnOut, searchVars>>

\* first pass: the file is added as a disambiguation page (exclude = 1)
RecoverAdd ==
    /\ pc = "recover"
    /\ k <= Len(refs.entries)
    /\ ~Matchable(refs.entries[k].url, fileIndex)
    /\ \E f \in {findHelpFile(refs.entries[k].url)} :
           /\ f.ok
           /\ docsTable' = InsertDocOrIgnore(docsTable, RecoveredRow(f))
           /\ fileIndex' = MapPut(fileIndex, normalizeFilePath(f.file), f.navPath)
    /\ added' = added + 1
    /\ k' = k + 1
    /\ UNCHANGED <<pc, rootCfg, subCfgs, disk, refs, stack, heap, docs,
                   helpTable, matched, fnIn, fnOut, searchVars>>

RecoverDone ==
    /\ pc = "recover"
    /\ k > Len(refs.entries)
    /\ pc' = "match"
    /\ k' = 1
    /\ UNCHANGED <<rootCfg, subCfgs, disk, refs, stack, heap, docs, docsTable, fileIndex,
                   helpTable, added, matched, fnIn, fnOut, searchVars>>

\* second pass: the URL matches, the association is inserted
MatchHit ==
    /\ pc = "match"
    /\ k <= Len(refs.entries)
    /\ \E r \in matchHelpURL(refs.entries[k].url, fileIndex) :
          /\ r.ok
          /\ helpTable' = InsertHelpOrIgnore(helpTable,
                 [symbol |-> refs.entries[k].symbol, path |-> r.navPath])
    /\ matched' = matched + 1
    /\ k' = k + 1
    /\ UNCHANGED <<pc, rootCfg, subCfgs, disk, refs, stack, heap, docs, docsTable, fileIndex,
                   added, fnIn, fnOut, searchVars>>

\* second pass: no match, the symbol is dropped
MatchMiss ==
    /\ pc = "match"
    /\ k <= Len(refs.entries)
    /\ ~Matchable(refs.entries[k].url, fileIndex)
    /\ k' = k + 1
    /\ UNCHANGED <<pc, rootCfg, subCfgs, disk, refs, stack, heap, docs, docsTable, fileIndex,
                   helpTable, added, matched, fnIn, fnOut, searchVars>>

MatchDone ==
    /\ pc = "match"
    /\ k > Len(refs.entries)
    /\ pc' = "done"
    /\ UNCHANGED <<rootCfg, subCfgs, disk, refs, stack, heap, docs, docsTable, fileIndex,
                   helpTable, k, added, matched, fnIn, fnOut, searchVars>>

Next ==
    \/ ParseRoot
    \/ WalkNavLoop
    \/ WalkNavReturn
    \/ ScalarLeaf
    \/ IncludeFails
    \/ IncludeWalks
    \/ IncludeOverflows
    \/ MappingLeaf
    \/ SectionEnter
    \/ SectionChild
    \/ SectionExit
    \/ MappingValue
    \/ SequenceLoop
    \/ WalkNavNodeReturn
    \/ InsertDoc
    \/ InsertDone
    \/ IndexDoc
    \/ ParseSymbolURLs
    \/ RecoverSkip
    \/ RecoverNoFile
    \/ RecoverAdd
    \/ RecoverDone
    \/ MatchHit
    \/ MatchMiss
    \/ MatchDone

(***************************************************************************)
(* The inputs of a run: navigation configurations, files, reference list   *)
(***************************************************************************)
\* all sequences of at most n elements of S
RECURSIVE SeqsUpTo(_, _)
SeqsUpTo(S, n) ==
    IF n = 0 THEN {<<>>}
    ELSE LET shorter == SeqsUpTo(S, n - 1)
         IN  shorter \cup {Append(q, x) : q \in {r \in shorter : Len(r) = n - 1}, x \in S}

MaxCost == 2

MaxChain == 3

MaxRefs == 2

fA == <<"a", ".", "m", "d">>
fB == <<"b", ".", "m", "d">>
fPng == <<"x", ".", "p", "n", "g">>
sSub == <<"s", "/", "m", "k", "d", "o", "c", "s", ".", "y", "m", "l">>
sSubT == <<"t", "/", "m", "k", "d", "o", "c", "s", ".", "y", "m", "l">>

Titles == {<<"S">>, <<"A">>}

\* bare references: a document and a file that is not a document
BareRefs == {fA, fPng}

\* titled references: two documents
PairRefs == {fA, fB}

RECURSIVE NodeCost(_), ValCost(_), ForestCost(_), PairsCost(_)
\* size of a nav item: one per bare reference, nested list and titled pair
NodeCost(n) ==
    CASE n.kind = "Scalar" -> 1
      [] n.kind = "Sequence" -> 1 + ForestCost(n.content)
      [] n.kind = "Mapping" -> PairsCost(n.content)

ValCost(v) ==
    CASE v.kind = "Scalar" -> 0
      [] v.kind = "Sequence" -> ForestCost(v.content)
      [] v.kind = "Mapping" -> PairsCost(v.content)

ForestCost(f) == IF f = <<>> THEN 0 ELSE NodeCost(Head(f)) + ForestCost(Tail(f))

PairsCost(c) == IF c = <<>> THEN 0 ELSE 1 + ValCost(c[2]) + PairsCost(Drop(c, 2))

RECURSIVE Forests(_), Pairs(_)
\* every list of nav items of size at most n
Forests(n) ==
    IF n = 0 THEN {<<>>}
    ELSE LET items == {ScalarNode(v) : v \in BareRefs}
                      \cup {MappingNode(c) : c \in Pairs(n) \ {<<>>}}
                      \cup {SequenceNode(f) : f \in Forests(n - 1)}
         IN  {<<>>} \cup UNION {{<<x>> \o rest : rest \in Forests(n - NodeCost(x))} : x \in items}

\* every key/value content of a mapping of size at most n
Pairs(n) ==
    IF n = 0 THEN {<<>>}
    ELSE LET vals == {ScalarNode(v) : v \in PairRefs}
                     \cup {SequenceNode(f) : f \in Forests(n - 1)}
                     \cup {MappingNode(c) : c \in Pairs(n - 1) \ {<<>>}}
         IN  {<<>>} \cup UNION {{<<ScalarNode(t), v>> \o rest : rest \in Pairs(n - 1 - ValCost(v))}
                                 : t \in Titles, v \in vals}

\* f below d nested one-child sections
RECURSIVE Chain(_, _)
Chain(d, f) ==
    IF d = 0 THEN f
    ELSE <<MappingNode(<<ScalarNode(<<"C">>), SequenceNode(Chain(d - 1, f))>>)>>

RECURSIVE HasInclude(_)
\* some titled value of the forest or node list is an inclusion
HasInclude(nodes) ==
    \E n \in 1..Len(nodes) :
        \/ nodes[n].kind = "Sequence" /\ HasInclude(nodes[n].content)
        \/ /\ nodes[n].kind = "Mapping"
           /\ \E m \in 1..(Len(nodes[n].content) \div 2) :
                LET v == nodes[n].content[2 * m]
                IN  \/ v.kind = "Scalar" /\ HasPrefix(v.value, sInclude)
                    \/ v.kind # "Scalar" /\ HasInclude(<<v>>)

RawTexts == <<
    <<"#", " ", "T", "\n", "<", "k", "b", "d", ">", "k", "<", "/", "k", "b", "d", ">">>,
    <<"t", "<", "b", "r", ">">>,
    <<"<", "h", "1", ">", "U", "<", "/", "h", "1", ">">>,
    <<"<", "d", "i", "v", " ", "d", "i", "s", "p", "l", "a", "y", ":", "n", "o", "n", "e",
      ">", "w", "<", "/", "d", "i", "v", ">", "v">>,
    <<>> >>

\* the files a run may find in the repository, each with its raw text
RepoFiles == <<
    sDocs \o <<"/">> \o fA,
    sDocs \o <<"/">> \o fB,
    <<"s", "/">> \o sDocs \o <<"/">> \o fA,
    <<"s", "/">> \o sDocs \o <<"/", "a", "/">> \o sIndexMd,
    <<"t", "/">> \o sDocs \o <<"/">> \o fA >>

DiskOf(which) ==
    [f \in {RepoFiles[n] : n \in which} |->
        RawTexts[CHOOSE n \in which : RepoFiles[n] = f]]

Cfg(nav) == [ok |-> TRUE, docsDir |-> <<>>, nav |-> nav]

TitledLeaf(t, ref) == MappingNode(<<ScalarNode(t), ScalarNode(ref)>>)

Section(t, items) == MappingNode(<<ScalarNode(t), SequenceNode(items)>>)

InclS == sInclude \o <<".", "/">> \o sSub

InclT == sInclude \o sSubT \o <<" ">>

\* what s/mkdocs.yml and t/mkdocs.yml may be: missing, unparsable, a
\* sub-site, a sub-site that includes the other, a sub-site that includes
\* itself or the one that included it
SubSites ==
    LET S == {Cfg(<<ScalarNode(fA), TitledLeaf(<<"A">>, fA)>>),
              Cfg(<<TitledLeaf(<<"A">>, fA), TitledLeaf(<<"S">>, InclS)>>),
              Cfg(<<TitledLeaf(<<"S">>, InclT), TitledLeaf(<<"A">>, fA)>>)}
        T == {Cfg(<<TitledLeaf(<<"A">>, fA)>>),
              Cfg(<<Section(<<"A">>, <<TitledLeaf(<<"S">>, InclS)>>)>>)}
    IN  {EmptyMap, [p \in {sSub} |-> NoCfg]}
        \cup {[p \in {sSub} |-> c] : c \in S}
        \cup {[p \in {sSub, sSubT} |-> IF p = sSub THEN S1 ELSE c]
               : S1 \in {Cfg(<<TitledLeaf(<<"S">>, InclT), TitledLeaf(<<"A">>, fA)>>)}, c \in T}

\* the top-level items of a site that includes another
IncludeItems == {TitledLeaf(t, r) : t \in Titles, r \in {fA, InclS}}

\* the records a reference list is made of
RefRecords ==
    [symbol : {<<"x">>, <<"y">>},
     url : {<<"s", "/", "a">>, <<"a">>, <<"s", "/", "b">>,
            <<"s", "/", "a", "/", "i", "n", "d", "e", "x">>}]

WalkStart ==
    /\ pc = "start"
    /\ stack = <<>>
    /\ heap = <<>>
    /\ docs = <<>>
    /\ docsTable = <<>>
    /\ fileIndex = EmptyMap
    /\ helpTable = <<>>
    /\ k = 0
    /\ added = 0
    /\ matched = 0
    /\ fnIn = <<>>
    /\ fnOut = <<>>
    /\ seen = {}
    /\ count = 0
    /\ tier = 0
    /\ pos = 0

\* runs over every small navigation tree without inclusions, at the top
\* and below MaxChain nested sections
InitTrees ==
    /\ \E d \in {0, MaxChain}, f \in Forests(MaxCost) : rootCfg = Cfg(Chain(d, f))
    /\ subCfgs = EmptyMap
    /\ disk \in {DiskOf({1, 2, 3}), DiskOf({1, 3})}
    /\ refs = [err |-> FALSE,
               entries |-> <<[symbol |-> <<"x">>, url |-> <<"a">>],
                             [symbol |-> <<"x">>, url |-> <<"s", "/", "a">>]>>]
    /\ WalkStart

\* runs over sites that include sub-sites
InitIncludes ==
    /\ \E d \in {0, MaxChain}, x \in IncludeItems, y \in IncludeItems :
           /\ HasInclude(<<x, y>>)
           /\ rootCfg = Cfg(Chain(d, <<x, y>>))
    /\ subCfgs \in SubSites
    /\ disk = DiskOf({1, 3, 5})
    /\ refs = NoRefs
    /\ WalkStart

\* runs over every short reference list, on a few navigation trees
InitRefs ==
    /\ rootCfg \in {Cfg(<<Section(<<"S">>, <<TitledLeaf(<<"A">>, fA)>>)>>),
                    Cfg(<<TitledLeaf(<<"A">>, fA),
                          TitledLeaf(<<"S">>, sInclude \o sSub)>>),
                    NoCfg}
    /\ subCfgs = [p \in {sSub} |-> Cfg(<<ScalarNode(fB), TitledLeaf(<<"B">>, fA)>>)]
    /\ disk \in {DiskOf(w) : w \in {{1, 2, 3, 4}, {1, 3}, {1, 4}, {1}}}
    /\ \/ refs = NoRefs
       \/ \E q \in SeqsUpTo(RefRecords, MaxRefs) :
              refs = [err |-> FALSE, entries |-> q]
    /\ WalkStart

Init == InitTrees \/ InitIncludes \/ InitRefs

Spec == Init /\ [][Next]_vars

(***************************************************************************)
(* The state of main() while one pure function is exercised on its own     *)
(***************************************************************************)
MainIdle ==
    /\ rootCfg = NoCfg
    /\ subCfgs = EmptyMap
    /\ disk = EmptyMap
    /\ refs = NoRefs
    /\ stack = <<>>
    /\ heap = <<>>
    /\ docs = <<>>
    /\ docsTable = <<>>
    /\ fileIndex = EmptyMap
    /\ helpTable = <<>>
    /\ k = 0
    /\ added = 0
    /\ matched = 0

mainVars == <<rootCfg, subCfgs, disk, refs, stack, heap, docs, docsTable,
              fileIndex, helpTable, k, added, matched>>

RECURSIVE Concat(_)
Concat(parts) == IF parts = <<>> THEN <<>> ELSE Head(parts) \o Concat(Tail(parts))

(***************************************************************************)
(* normalizeFilePath on its own                                            *)
(***************************************************************************)
MaxSegs == 4

\* clean relative locations of markdown files
NormInputs ==
    LET names == {sDocs, sIndex, <<"s", "i", "t", "e">>, <<"f", "o", "o">>,
                 <<"s", "y", "m", "b", "o", "l", "s">>, <<"i", "o", "t", "a">>}
    IN  {Join(q, <<"/">>) \o sMd : q \in SeqsUpTo(names, MaxSegs) \ {<<>>}}

InitNorm ==
    /\ pc = "norm"
    /\ fnIn \in NormInputs
    /\ fnOut = <<>>
    /\ seen = {}
    /\ count = 0
    /\ tier = 0
    /\ pos = 0
    /\ MainIdle

ApplyNormalize ==
    /\ pc = "norm"
    /\ fnOut' = <<normalizeFilePath(fnIn)>>
    /\ pc' = "fnDone"
    /\ UNCHANGED <<fnIn, mainVars, searchVars>>

SpecNorm == InitNorm /\ [][ApplyNormalize]_vars

(***************************************************************************)
(* the markup rewrites on their own, applied once and then once more       *)
(***************************************************************************)
MaxFrags == 3

CleanInputs ==
    LET frags == {<<"<", "k", "b", "d", ">">>, <<"<", "/", "k", "b", "d", ">">>,
                 <<"<", "d", "i", "v", ">">>, <<"<", "s", "p">>, <<"a", "n", ">">>,
                 <<"<", "h", "1", ">">>, <<"<", "/", "h", "1", ">">>,
                 <<"<", "b", "r", ">">>, <<"x">>}
    IN  {Concat(q) : q \in SeqsUpTo(frags, MaxFrags)}

InitClean ==
    /\ pc = "clean"
    /\ fnIn \in CleanInputs
    /\ fnOut = <<>>
    /\ seen = {}
    /\ count = 0
    /\ tier = 0
    /\ pos = 0
    /\ MainIdle

ApplyClean ==
    /\ pc = "clean"
    /\ fnOut' = <<ConvertMarkup(fnIn)>>
    /\ pc' = "cleanAgain"
    /\ UNCHANGED <<fnIn, mainVars, searchVars>>

ApplyCleanAgain ==
    /\ pc = "cleanAgain"
    /\ fnOut' = Append(fnOut, ConvertMarkup(fnOut[1]))
    /\ pc' = "fnDone"
    /\ UNCHANGED <<fnIn, mainVars, searchVars>>

NextClean == ApplyClean \/ ApplyCleanAgain

SpecClean == InitClean /\ [][NextClean]_vars

(***************************************************************************)
(* matchHelpURL on its own                                                 *)
(***************************************************************************)
MaxKeys == 3

MatchIndexes ==
    LET keys == {<<"x">>, <<"x", "/", "i", "n", "d", "e", "x">>, <<"a", "/", "x">>,
                <<"b", "/", "x">>, <<"a", "/", "x", "/", "i", "n", "d", "e", "x">>}
    IN  UNION {[D -> {<<"P">>, <<"Q">>}]
               : D \in {E \in SUBSET keys : Cardinality(E) <= MaxKeys}}

InitMatch ==
    /\ pc = "matchOne"
    /\ fnIn \in [url : {<<"x">>, <<"a", "/", "x">>, <<"y">>}, index : MatchIndexes]
    /\ fnOut = <<>>
    /\ seen = {}
    /\ count = 0
    /\ tier = 0
    /\ pos = 0
    /\ MainIdle

ApplyMatch ==
    /\ pc = "matchOne"
    /\ \E r \in matchHelpURL(fnIn.url, fnIn.index) : fnOut' = <<r>>
    /\ pc' = "fnDone"
    /\ UNCHANGED <<fnIn, mainVars, searchVars>>

SpecMatch == InitMatch /\ [][ApplyMatch]_vars

(***************************************************************************)
(* searchDocs of docsearch: three queries in priority order, their rows    *)
(* printed through printResults with one seen map and one count            *)
(***************************************************************************)
MaxRows == 2

MaxLimit == 3

\* a test that lets one more result through
AtLimitOffByOne(c, limit) == c > limit

\* count >= limit: the test of printResults' loop and of searchDocs after
\* the first and the second query
AtLimit(c, limit) == c >= limit

\* the rows of the three queries (keywords LIKE, title MATCH, content
\* MATCH), each a list of distinct rowids, and the -l flag
InitSearch ==
    /\ pc = "search"
    /\ LET rows == {q \in SeqsUpTo(1..3, MaxRows) :
                       \A i, j \in 1..Len(q) : q[i] = q[j] => i = j}
       IN  fnIn \in [tiers : rows \X rows \X rows, limit : 0..MaxLimit]
    /\ fnOut = <<>>
    /\ seen = {}
    /\ count = 0
    /\ tier = 1
    /\ pos = 1
    /\ MainIdle

\* printResults: a row not seen before is printed and counted
PrintRow ==
    /\ pc = "search"
    /\ pos <= Len(fnIn.tiers[tier])
    /\ ~AtLimit(count, fnIn.limit)
    /\ fnIn.tiers[tier][pos] \notin seen
    /\ seen' = seen \cup {fnIn.tiers[tier][pos]}
    /\ fnOut' = Append(fnOut, fnIn.tiers[tier][pos])
    /\ count' = count + 1
    /\ pos' = pos + 1
    /\ UNCHANGED <<pc, fnIn, tier, mainVars>>

\* printResults: if seen[rowid] { continue }
SkipSeenRow ==
    /\ pc = "search"
    /\ pos <= Len(fnIn.tiers[tier])
    /\ ~AtLimit(count, fnIn.limit)
    /\ fnIn.tiers[tier][pos] \in seen
    /\ pos' = pos + 1
    /\ UNCHANGED <<pc, fnIn, fnOut, seen, count, tier, mainVars>>

\* printResults returns, at the end of the rows or at the limit; searchDocs
\* returns at the limit or after the third query, and runs the next query
\* otherwise
PrintResultsReturn ==
    /\ pc = "search"
    /\ pos > Len(fnIn.tiers[tier]) \/ AtLimit(count, fnIn.limit)
    /\ IF tier = 3 \/ AtLimit(count, fnIn.limit)
       THEN pc' = "searchDone" /\ UNCHANGED <<tier, pos>>
       ELSE tier' = tier + 1 /\ pos' = 1 /\ UNCHANGED pc
    /\ UNCHANGED <<fnIn, fnOut, seen, count, mainVars>>

SpecSearch == InitSearch /\ [][PrintRow \/ SkipSeenRow \/ PrintResultsReturn]_vars

(***************************************************************************)
(* Properties of the walk (Spec)                                           *)
(***************************************************************************)
WalkDone == pc \in {"insert", "index", "recover", "match", "done"}

RECURSIVE RouteNodes(_, _, _, _), RouteNode(_, _, _, _), RoutePairs(_, _, _, _)
\* the leaves below nodes in depth-first order, each with the titles on
\* the route from the root to it, its reference and its document root;
\* fuel is the number of nested inclusions still followed
RouteNodes(nodes, docsDir, route, fuel) ==
    IF nodes = <<>> THEN <<>>
    ELSE RouteNode(Head(nodes), docsDir, route, fuel)
         \o RouteNodes(Tail(nodes), docsDir, route, fuel)

RouteNode(node, docsDir, route, fuel) ==
    CASE node.kind = "Scalar" -> <<[route |-> route, ref |-> node.value, dir |-> docsDir]>>
      [] node.kind = "Sequence" -> RouteNodes(node.content, docsDir, route, fuel)
      [] node.kind = "Mapping" -> RoutePairs(node.content, docsDir, route, fuel)

RoutePairs(c, docsDir, route, fuel) ==
    IF Len(c) < 2 THEN <<>>
    ELSE LET r == Append(route, c[1].value)
             v == c[2]
             site == PathClean(TrimSpace(TrimPrefix(v.value, sInclude)))
             here ==
                 CASE v.kind = "Scalar" /\ ~HasPrefix(v.value, sInclude) ->
                          <<[route |-> r, ref |-> v.value, dir |-> docsDir]>>
                   [] v.kind = "Scalar" /\ HasPrefix(v.value, sInclude) ->
                          IF fuel = 0 \/ site \notin DOMAIN subCfgs THEN <<>>
                          ELSE IF ~subCfgs[site].ok THEN <<>>
                          ELSE RouteNodes(subCfgs[site].nav,
                                          PathJoin(PathDir(site), DocsDirOf(subCfgs[site])),
                                          r, fuel - 1)
                   [] v.kind = "Sequence" -> RouteNodes(v.content, docsDir, r, fuel)
                   [] v.kind = "Mapping" -> RoutePairs(v.content, docsDir, r, fuel)
         IN  here \o RoutePairs(Drop(c, 2), docsDir, route, fuel)

IsReadableDoc(leaf) ==
    HasSuffix(leaf.ref, sMd) /\ PathJoin(leaf.dir, leaf.ref) \in DOMAIN disk

AllLeaves ==
    RouteNodes(rootCfg.nav, DocsDirOf(rootCfg), <<>>, Cardinality(DOMAIN subCfgs))

\* the leaves the walk emits an entry for, in traversal order
DocLeaves == SelectSeq(AllLeaves, IsReadableDoc)

\* C1 as stated: the path of every emitted entry is the " / "-join of the
\* titles on the route from the root to its leaf
C1_PathIsJoinOfRouteTitles ==
    LET leaves == DocLeaves
    IN  \A n \in 1..Len(docs) :
            n <= Len(leaves) => docs[n].path = Join(leaves[n].route, sSep)

\* C1: every step that changes the walk's output appends one entry and
\* leaves the earlier ones as they are; the new entry is that of the next
\* leaf in traversal order, with the file of that leaf and with the " / "-
\* join of the titles on its route as path, or the raw file reference
\* where that join is empty; when the walk returns there is one entry per
\* leaf, whatever the order and number of the siblings that extended the
\* breadcrumb
C1_BreadcrumbIsolation ==
    [][/\ docs' # docs =>
              LET leaves == DocLeaves
                  n == Len(docs) + 1
              IN  /\ n <= Len(leaves)
                  /\ Len(docs') = n
                  /\ SubSeq(docs', 1, n - 1) = docs
                  /\ docs'[n].file = PathJoin(leaves[n].dir, leaves[n].ref)
                  /\ docs'[n].path = IF Join(leaves[n].route, sSep) = <<>>
                                     THEN leaves[n].ref
                                     ELSE Join(leaves[n].route, sSep)
       /\ pc = "walk" /\ pc' = "insert" => Len(docs') = Len(DocLeaves)]_vars

\* the walk is over and two sibling leaves were emitted whose last titles
\* went, one after the other, into the same slot of one backing array
C1_SiblingsSharedBackingArray ==
    /\ WalkDone
    /\ \E h \in 1..Len(heap), m \in 1..Len(docs), n \in 1..Len(docs) :
          \E j \in 2..Len(heap[h]), t \in Titles :
              /\ m < n
              /\ Len(heap[h]) \div 2 + 1 < j
              /\ t # heap[h][j]
              /\ docs[n].path = Join(Take(heap[h], j), sSep)
              /\ docs[m].path = Join(Append(Take(heap[h], j - 1), t), sSep)

\* the first position of docs with the path p
FirstWithPath(p) == CHOOSE n \in 1..Len(docs) :
                        /\ docs[n].path = p
                        /\ \A m \in 1..(n - 1) : docs[m].path # p

\* C2: no two rows of the docs table share a path; the row of a path the
\* walk produced is the first entry of the walk with that path, with its
\* file, title, keywords and content; once the walk's entries are
\* inserted every path of the walk has its row
C2_PathUniqueFirstSeenWins ==
    /\ \A m, n \in 1..Len(docsTable) : docsTable[m].path = docsTable[n].path => m = n
    /\ \A m \in 1..Len(docsTable) :
          (\E n \in 1..Len(docs) : docs[n].path = docsTable[m].path)
              => docsTable[m] = docs[FirstWithPath(docsTable[m].path)]
    /\ pc \in {"index", "recover", "match", "done"}
          => \A n \in 1..Len(docs) : HasPath(docsTable, docs[n].path)

\* two leaves with different files collided on one path, and the table
\* holds the file of the first
C2_CollisionKeptFirst ==
    /\ pc = "done"
    /\ \E m, n \in 1..Len(docs), r \in 1..Len(docsTable) :
          /\ m < n
          /\ docs[m].path = docs[n].path
          /\ docs[m].file # docs[n].file
          /\ \A i \in 1..(m - 1) : docs[i].path # docs[m].path
          /\ docsTable[r].path = docs[m].path
          /\ docsTable[r].file = docs[m].file

RECURSIVE CountDocs(_)
\* the number of leaves of a tree without inclusions whose reference ends
\* in .md and whose file, under the root site's document root, is readable
CountDocs(nodes) ==
    IF nodes = <<>> THEN 0
    ELSE LET n == Head(nodes)
             here == CASE n.kind = "Scalar" ->
                              IF /\ HasSuffix(n.value, sMd)
                                 /\ PathJoin(DocsDirOf(rootCfg), n.value) \in DOMAIN disk
                              THEN 1 ELSE 0
                       [] n.kind = "Sequence" -> CountDocs(n.content)
                       [] n.kind = "Mapping" ->
                              CountDocs([m \in 1..(Len(n.content) \div 2) |-> n.content[2 * m]])
         IN  here + CountDocs(Tail(nodes))

\* C3: for a navigation tree without inclusions, the walk returns as many
\* entries as the tree has leaves whose reference ends in .md and whose
\* file can be read
C3_EmittedCountIsReadableDocLeaves ==
    WalkDone /\ ~HasInclude(rootCfg.nav) => Len(docs) = CountDocs(rootCfg.nav)

\* a walk without inclusions that emitted an entry and skipped a leaf: a
\* reference that is not a document or a document it could not read
C3_SkippedAndEmitted ==
    /\ WalkDone
    /\ ~HasInclude(rootCfg.nav)
    /\ Len(docs) >= 1
    /\ \E n \in 1..Len(AllLeaves) : ~IsReadableDoc(AllLeaves[n])

\* the entry a readable document leaf yields on its own: it depends on the
\* leaf's route, reference, document root and text, and on nothing else
EntryOfLeaf(leaf) ==
    LET file == PathJoin(leaf.dir, leaf.ref)
        r == extractTitleAndClean(disk[file])
        joined == Join(leaf.route, sSep)
    IN  [path |-> IF joined = <<>> THEN leaf.ref ELSE joined,
         file |-> file,
         title |-> IF r.title = <<>> /\ leaf.route # <<>>
                   THEN leaf.route[Len(leaf.route)] ELSE r.title,
         keywords |-> r.keywords,
         content |-> r.content,
         exclude |-> FALSE]

\* C11: when the walk returns, its output holds, in traversal order, the
\* entry of every readable document leaf that is not below an inclusion
\* that failed to load, each exactly as the leaf yields it on its own:
\* unreadable leaves and unloadable inclusions contribute nothing and
\* change nothing else; the run is aborted at the top-level configuration
\* exactly when that configuration cannot be loaded, and then nothing was
\* produced
C11_LocalFailuresOnlySkip ==
    [][/\ pc = "walk" /\ pc' = "insert" =>
              LET leaves == DocLeaves
              IN  docs' = [n \in 1..Len(leaves) |-> EntryOfLeaf(leaves[n])]
       /\ pc = "start" =>
              /\ pc' = "fatal" <=> ~rootCfg.ok
              /\ pc' = "fatal" => docs' = <<>> /\ docsTable' = <<>>
       /\ pc # "start" => pc' # "fatal"]_vars

\* the walk returned after an inclusion that could not be loaded, and the
\* titled leaf that follows it was emitted
C11_WalkedPastFailedInclude ==
    /\ WalkDone
    /\ \E t \in Titles, u \in Titles :
          rootCfg.nav = <<TitledLeaf(t, InclS), TitledLeaf(u, fA)>>
    /\ parseMkdocs(sSub).err
    /\ Len(docs) = 1
    /\ docs[1].file = PathJoin(sDocs, fA)

\* C14: whatever the configurations, also when an inclusion directive names
\* the configuration it stands in or one of its ancestors, the walk ends in
\* one of two ways, the traversal completed or a fatal error of the
\* top-level configuration: the nesting of inclusions stays bounded and the
\* recursion of handleInclude and walkNav never runs away
C14_WalkTerminates ==
    /\ pc # "overflow"
    /\ pc = "walk" => InclDepth <= Cardinality(DOMAIN subCfgs)

(***************************************************************************)
(* Properties of the search (SpecSearch)                                  *)
(***************************************************************************)
RECURSIVE FirstOccurrences(_)
\* a list without the later occurrences of its elements
FirstOccurrences(q) ==
    IF q = <<>> THEN <<>>
    ELSE LET init == FirstOccurrences(SubSeq(q, 1, Len(q) - 1))
         IN  IF \E i \in 1..Len(init) : init[i] = q[Len(q)]
             THEN init ELSE Append(init, q[Len(q)])

\* the rows of the three queries in priority order, each rowid once, at its
\* place in the highest-priority query that returns it
Ranked == FirstOccurrences(fnIn.tiers[1] \o fnIn.tiers[2] \o fnIn.tiers[3])

\* C12: whatever the three queries return and whatever the limit, the rowids
\* printed so far are the beginning of the ranked list (keyword rows, then
\* title rows, then content rows, each rowid once at its highest-priority
\* place), never more than limit of them; and when searchDocs returns, it
\* has printed the first limit of the ranked list, or all of it if shorter
C12_TieredDedupWithinLimit ==
    pc \in {"search", "searchDone"} =>
        /\ Len(fnOut) <= fnIn.limit
        /\ Len(fnOut) <= Len(Ranked)
        /\ fnOut = SubSeq(Ranked, 1, Len(fnOut))
        /\ count = Len(fnOut)
        /\ seen = {fnOut[i] : i \in 1..Len(fnOut)}
        /\ pc = "searchDone" =>
              Len(fnOut) = fnIn.limit \/ Len(fnOut) = Len(Ranked)

\* a search returned at the limit with results left over, after it skipped
\* a title row that the keyword query had printed and printed the next one
C12_SkippedDuplicateAndStoppedAtLimit ==
    /\ pc = "searchDone"
    /\ Len(fnIn.tiers[1]) = 1
    /\ Len(fnIn.tiers[2]) = 2
    /\ fnIn.tiers[2][1] = fnIn.tiers[1][1]
    /\ fnOut = <<fnIn.tiers[1][1], fnIn.tiers[2][2]>>
    /\ fnIn.limit = 2
    /\ Len(Ranked) > 2

(***************************************************************************)
(* Properties of the recovery and matching passes (Spec)                   *)
(***************************************************************************)
\* C4: every association of the help_urls table has the path of a row of
\* the docs table, and a step that adds an association adds one whose path
\* had its row before the step
C4_NoDanglingAssociation ==
    [][/\ \A h \in 1..Len(helpTable') : HasPath(docsTable', helpTable'[h].path)
       /\ \A h \in 1..Len(helpTable') :
              h > Len(helpTable) => HasPath(docsTable, helpTable'[h].path)]_vars

\* the run ended with one association to a recovered page and one to a page
\* of the walk
C4_AssociatedBothKinds ==
    /\ pc = "done"
    /\ \E g, h \in 1..Len(helpTable), r, w \in 1..Len(docsTable) :
          /\ docsTable[r].exclude
          /\ docsTable[r].path = helpTable[g].path
          /\ ~docsTable[w].exclude
          /\ docsTable[w].path = helpTable[h].path

\* the positions, among the first n records, of the records of symbol sym
\* whose reference path matches
MatchingRecords(sym, n) ==
    {i \in 1..n : refs.entries[i].symbol = sym /\ Matchable(refs.entries[i].url, fileIndex)}

Earliest(S) == CHOOSE i \in S : \A j \in S : i <= j

\* C5: the help_urls table holds at most one row per symbol; during and
\* after the matching pass a symbol has a row exactly when one of its
\* records seen so far matched, and the row holds a path the matcher can
\* return for the earliest of them
C5_OnePerSymbolFirstMatchWins ==
    /\ \A g, h \in 1..Len(helpTable) : helpTable[g].symbol = helpTable[h].symbol => g = h
    /\ pc \in {"match", "done"} /\ ~refs.err =>
          LET scanned == IF pc = "done" THEN Len(refs.entries) ELSE k - 1
          IN  /\ \A h \in 1..Len(helpTable) :
                    /\ MatchingRecords(helpTable[h].symbol, scanned) # {}
                    /\ Hit(helpTable[h].path) \in
                           matchHelpURL(refs.entries[Earliest(MatchingRecords(
                                            helpTable[h].symbol, scanned))].url, fileIndex)
              /\ \A i \in 1..scanned :
                    Matchable(refs.entries[i].url, fileIndex)
                        => HasSymbol(helpTable, refs.entries[i].symbol)

\* one symbol had two matching records with different paths, and the table
\* holds the path of the earlier
C5_LaterRecordIgnored ==
    /\ pc = "done"
    /\ ~refs.err
    /\ \E m, n \in 1..Len(refs.entries), h \in 1..Len(helpTable) :
          /\ m < n
          /\ refs.entries[m].symbol = refs.entries[n].symbol
          /\ helpTable[h].symbol = refs.entries[m].symbol
          /\ Matchable(refs.entries[m].url, fileIndex)
          /\ Matchable(refs.entries[n].url, fileIndex)
          /\ matchHelpURL(refs.entries[m].url, fileIndex) = {Hit(helpTable[h].path)}
          /\ Hit(helpTable[h].path) \notin matchHelpURL(refs.entries[n].url, fileIndex)

RECURSIVE IndexOf(_)
\* the index main builds from the walk's entries, before the recovery pass
IndexOf(entries) ==
    IF entries = <<>> THEN EmptyMap
    ELSE MapPut(IndexOf(Take(entries, Len(entries) - 1)),
                normalizeFilePath(LastOf(entries).file), LastOf(entries).path)

\* C6: for every reference path that does not match the index built from
\* the walk and has a file at <first segment>/docs/<remainder>.md or
\* <first segment>/docs/<remainder>/index.md, the finished run has a row
\* with exclude set whose path is the title-cased reference path, and the
\* record's symbol is associated with that path (stated for the first
\* record of each symbol, so that no earlier record can hold the symbol)
C6_RecoveredThenMatched ==
    pc = "done" /\ ~refs.err =>
        \A i \in 1..Len(refs.entries) :
            /\ \A j \in 1..(i - 1) : refs.entries[j].symbol # refs.entries[i].symbol
            /\ ~Matchable(refs.entries[i].url, IndexOf(docs))
            /\ findHelpFile(refs.entries[i].url).ok
            => /\ \E r \in 1..Len(docsTable) :
                      /\ docsTable[r].exclude
                      /\ docsTable[r].path = buildNavPath(refs.entries[i].url)
               /\ \E h \in 1..Len(helpTable) :
                      /\ helpTable[h].symbol = refs.entries[i].symbol
                      /\ helpTable[h].path = buildNavPath(refs.entries[i].url)

\* C13: a step of the recovery pass leaves every key of the index built
\* from the walk mapped to the catalog path it had before the pass, leaves
\* every row already in the catalog as it was, and for a reference path
\* that matches the index when it is examined adds no row and no key
C13_RecoveryLeavesResolvableUntouched ==
    [][pc = "recover" =>
          /\ \A key \in DOMAIN IndexOf(docs) :
                /\ key \in DOMAIN fileIndex'
                /\ fileIndex'[key] = IndexOf(docs)[key]
          /\ Len(docsTable') >= Len(docsTable)
          /\ \A n \in 1..Len(docsTable) : docsTable'[n] = docsTable[n]
          /\ (k <= Len(refs.entries) /\ Matchable(refs.entries[k].url, fileIndex))
                => docsTable' = docsTable /\ fileIndex' = fileIndex]_vars

\* C15: whenever the matching pass associates a symbol with a catalog path
\* that it found under an index key, the reference path itself or the
\* reference path with "/index" appended, the catalog row kept under that
\* path is the row of a file whose normalized location is that key
C15_AssociationTargetsReferencedFile ==
    [][pc = "match" /\ helpTable' # helpTable =>
          \A key \in {refs.entries[k].url, refs.entries[k].url \o <<"/">> \o sIndex} :
              (/\ key \in DOMAIN fileIndex
               /\ key = refs.entries[k].url \/ refs.entries[k].url \notin DOMAIN fileIndex)
              => \E n \in 1..Len(docsTable) :
                    /\ docsTable[n].path = fileIndex[key]
                    /\ normalizeFilePath(docsTable[n].file) = key]_vars

(***************************************************************************)
(* Properties of matchHelpURL (SpecMatch)                                  *)
(***************************************************************************)
ViaIndex(url) == url \o <<"/">> \o sIndex

\* the indexed keys that end with "/" + url
EndsWithURL(url, index) == {f \in DOMAIN index : HasSuffix(f, <<"/">> \o url)}

\* C7: matchHelpURL returns the path indexed under the reference path when
\* that key exists; otherwise the path indexed under reference path +
\* "/index" when that key exists; otherwise the path of some key ending
\* with "/" + reference path; and it reports no match exactly when no tier
\* has a candidate
C7_MatchTierOrder ==
    pc = "fnDone" /\ Len(fnOut) = 1 =>
        LET url == fnIn.url
            index == fnIn.index
            r == fnOut[1]
        IN  /\ url \in DOMAIN index => r = Hit(index[url])
            /\ url \notin DOMAIN index /\ ViaIndex(url) \in DOMAIN index
                   => r = Hit(index[ViaIndex(url)])
            /\ url \notin DOMAIN index /\ ViaIndex(url) \notin DOMAIN index
                   /\ EndsWithURL(url, index) # {}
                   => r.ok /\ \E f \in EndsWithURL(url, index) : r.navPath = index[f]
            /\ r.ok <=> \/ url \in DOMAIN index
                        \/ ViaIndex(url) \in DOMAIN index
                        \/ EndsWithURL(url, index) # {}

\* a "/index" match returned while a key with another path ends with
\* "/" + reference path
C7_TierTwoBeatsSuffix ==
    /\ pc = "fnDone"
    /\ Len(fnOut) = 1
    /\ fnIn.url \notin DOMAIN fnIn.index
    /\ ViaIndex(fnIn.url) \in DOMAIN fnIn.index
    /\ \E f \in EndsWithURL(fnIn.url, fnIn.index) :
           fnIn.index[f] # fnIn.index[ViaIndex(fnIn.url)]
    /\ fnOut[1] = Hit(fnIn.index[ViaIndex(fnIn.url)])

\* the characters of the keys, in byte order
ByteOrder == <<"/", "a", "b", "d", "e", "i", "n", "x", "y">>

Ord(c) == CHOOSE n \in 1..Len(ByteOrder) : ByteOrder[n] = c

RECURSIVE LexLess(_, _)
\* a < b as Go compares strings
LexLess(a, b) ==
    IF b = <<>> THEN FALSE
    ELSE IF a = <<>> THEN TRUE
    ELSE IF Head(a) # Head(b) THEN Ord(Head(a)) < Ord(Head(b))
    ELSE LexLess(Tail(a), Tail(b))

LexSmallest(S) == CHOOSE f \in S : \A g \in S \ {f} : LexLess(f, g)

\* C8: when a reference path has no exact and no "/index" match and two or
\* more indexed keys end with "/" + reference path, the matcher returns the
\* path of the lexicographically smallest of them
C8_SuffixTieBreakSmallest ==
    /\ pc = "fnDone"
    /\ Len(fnOut) = 1
    /\ fnIn.url \notin DOMAIN fnIn.index
    /\ ViaIndex(fnIn.url) \notin DOMAIN fnIn.index
    /\ Cardinality(EndsWithURL(fnIn.url, fnIn.index)) >= 2
    => fnOut[1] = Hit(fnIn.index[LexSmallest(EndsWithURL(fnIn.url, fnIn.index))])

(***************************************************************************)
(* Properties of normalizeFilePath (SpecNorm)                              *)
(***************************************************************************)
IsIndexPage(file) == file = sIndexMd \/ HasSuffix(file, <<"/">> \o sIndexMd)

\* the identifier of the directory of file: the document-root segments
\* removed from the directory's path
DirId(file) ==
    LET dir == Take(file, Len(file) - Len(sIndexMd))
        a == ReplaceAll(dir, <<"/">> \o sDocs \o <<"/">>, <<"/">>)
        b == TrimPrefix(a, sDocs \o <<"/">>)
    IN  TrimSuffix(b, <<"/">>)

\* C9: for every location whose last segment is index.md, normalizeFilePath
\* returns the identifier of the containing directory ("docs/index.md"
\* gives "", "site/docs/foo/index.md" gives "site/foo")
C9_IndexPageIsDirectoryId ==
    pc = "fnDone" /\ Len(fnOut) = 1 /\ IsIndexPage(fnIn) => fnOut[1] = DirId(fnIn)

(***************************************************************************)
(* Properties of the markup rewrites (SpecClean)                           *)
(***************************************************************************)
\* C10: applying the rewrites of steps 5-11 to their own result gives that
\* result again
C10_ConvertMarkupIdempotent ==
    pc = "fnDone" /\ Len(fnOut) = 2 => fnOut[2] = fnOut[1]

====
